---------------------------- MODULE Spec2Model ----------------------------
(***************************************************************************)
(* Model of the alignment utilities: the PAF filter (parse_paf.py) and the *)
(* alignment plot (asm_plot.py).                                           *)
(*                                                                         *)
(* Text is modelled as it is in Python: a string is a sequence of          *)
(* one-character strings, so that strip, split, int and the natural sort   *)
(* key are computed on the characters, as the code computes them.          *)
(* A call's outcome is a record [kind, ...]: kind "None" / "record" for a  *)
(* returned value, kind "raise" (with the exception's name) for an         *)
(* exception that propagates.                                              *)
(***************************************************************************)
EXTENDS Integers, Sequences, FiniteSets, TLC

VARIABLES
    line,            \* parse_paf_line: the text of the line passed in
    min_length,      \* parse_paf_line / read_paf: the threshold argument
    paf_in,          \* ghost: the fields the line was written from
    parsed_line,     \* parse_paf_line: the outcome of the call
    paf_file,        \* read_paf: the file, as what each line is written from
    paf_pos,         \* read_paf: the number of lines consumed
    alignments,      \* read_paf: the list being built
    paf_pc,          \* read_paf: "idle", "reading", "returned" or "raised"
    sort_a,          \* natural sort: the two names whose keys are compared
    sort_b,
    sort_cmp,        \* natural sort: the outcome of key(a) < key(b)
    chrom_y_positions, \* plot_data: the slot of each chromosome, once assigned
    pc,              \* asm_plot main: where the run stands
    error,           \* asm_plot main: the exception that ended the run
    bed_file,        \* read_bed_file: the lines of the BED file
    bed_pos,         \* read_bed_file: the number of lines consumed
    bed_in,          \* read_bed_file: the line just read
    bed_parsed,      \* read_bed_file: parsed_line, the outcome of parse_bed_line
    regions,         \* read_bed_file / plot_data: the regions
    alignment_files, \* plot_data: the paths read so far
    color_files,     \* plot_data: the colour tables read so far
    source_index,    \* plot_data: i, the index of the source
    vertical_offset, \* plot_data: in hundredths
    data,            \* plot_data: the records of the current source
    color_lookup,    \* plot_data: the colours of the current source
    loop_pos,        \* plot_data: the position in the loop being run
    patches          \* the rectangles given to ax.add_patch, in order

vars_paf == <<line, min_length, paf_in, parsed_line>>
vars_read == <<paf_file, paf_pos, alignments, paf_pc>>
vars_sort == <<sort_a, sort_b, sort_cmp>>
vars_main == <<pc, error, bed_file, bed_pos, bed_in, bed_parsed, regions,
               alignment_files, color_files, source_index, vertical_offset,
               data, color_lookup, loop_pos, patches>>
vars_other == <<vars_sort, chrom_y_positions, vars_main>>
vars == <<vars_paf, vars_read, vars_other>>

(***************************************************************************)
(* Bounds of the model.                                                    *)
(***************************************************************************)
MaxTags == 3
MaxLines == 3
MaxBedLines == 2
MaxSources == 2

(***************************************************************************)
(* Python text primitives.                                                 *)
(***************************************************************************)
TAB == "\t"
NL == "\n"
None == <<"None">>   \* Python's None: no text is a sequence holding this

Whitespace == {" ", TAB, NL, "\r"}
Digits == {"0", "1", "2", "3", "4", "5", "6", "7", "8", "9"}

DigitVal(c) ==
    CASE c = "0" -> 0 [] c = "1" -> 1 [] c = "2" -> 2 [] c = "3" -> 3
      [] c = "4" -> 4 [] c = "5" -> 5 [] c = "6" -> 6 [] c = "7" -> 7
      [] c = "8" -> 8 [] c = "9" -> 9

RECURSIVE LStrip(_)
LStrip(s) ==
    IF s # <<>> /\ Head(s) \in Whitespace THEN LStrip(Tail(s)) ELSE s

RECURSIVE RStrip(_)
RStrip(s) ==
    IF s # <<>> /\ s[Len(s)] \in Whitespace
    THEN RStrip(SubSeq(s, 1, Len(s) - 1))
    ELSE s

\* str.strip(): leading and trailing whitespace removed
Strip(s) == RStrip(LStrip(s))

\* the first index of character c in s, 0 when there is none
RECURSIVE Find(_, _, _)
Find(s, c, i) ==
    IF i > Len(s) THEN 0
    ELSE IF s[i] = c THEN i
    ELSE Find(s, c, i + 1)

\* str.split(c) for a one-character separator
RECURSIVE Split(_, _)
Split(s, c) ==
    LET i == Find(s, c, 1)
    IN  IF i = 0 THEN <<s>>
        ELSE <<SubSeq(s, 1, i - 1)>> \o Split(SubSeq(s, i + 1, Len(s)), c)

\* str.join
RECURSIVE Join(_, _)
Join(parts, c) ==
    IF parts = <<>> THEN <<>>
    ELSE IF Len(parts) = 1 THEN parts[1]
    ELSE parts[1] \o <<c>> \o Join(Tail(parts), c)

RECURSIVE DigitsValue(_, _)
DigitsValue(s, acc) ==
    IF s = <<>> THEN acc ELSE DigitsValue(Tail(s), 10 * acc + DigitVal(Head(s)))

AllDigits(s) == s # <<>> /\ \A i \in 1..Len(s) : s[i] \in Digits

\* int(text): surrounding whitespace ignored, an optional sign, then digits;
\* anything else raises ValueError (ok = FALSE)
ToInt(text) ==
    LET s == Strip(text)
        signed == s # <<>> /\ Head(s) \in {"-", "+"}
        body == IF signed THEN Tail(s) ELSE s
    IN  IF ~AllDigits(body) THEN [ok |-> FALSE, val |-> 0]
        ELSE [ok |-> TRUE,
              val |-> IF signed /\ Head(s) = "-"
                      THEN 0 - DigitsValue(body, 0)
                      ELSE DigitsValue(body, 0)]

(***************************************************************************)
(* parse_paf.py                                                            *)
(***************************************************************************)
NoRecord == [query_name |-> None, query_start |-> None, query_end |-> None,
             target_name |-> None, ref_pos_start |-> None,
             ref_pos_end |-> None, ref_seq_len |-> None,
             tp |-> None, de |-> None]

ReturnNone == [kind |-> "None", value |-> NoRecord, error |-> "-"]
Return(rec) == [kind |-> "record", value |-> rec, error |-> "-"]
Raise(exc) == [kind |-> "raise", value |-> NoRecord, error |-> exc]
NotCalled == [kind |-> "not called", value |-> NoRecord, error |-> "-"]

\* Python indexes from 0: fields[k] is the model's Field(fields, k)
Field(fields, k) == fields[k + 1]

\* line 31, first test: len(fields) < 12
TooFewFields(fields) == Len(fields) < 12

\* the length test with <= in place of <: a line of exactly min_length
\* matches would be dropped
BelowMinLength_le(n, min) == n <= min
\* line 31, second test: int(fields[9]) < min_length
BelowMinLength(n, min) == n < min

\* lines 36-46: the dictionary built from the mandatory fields
CoreFields(fields) ==
    [query_name |-> Field(fields, 0),
     query_start |-> Field(fields, 2),
     query_end |-> Field(fields, 3),
     target_name |-> Field(fields, 5),
     ref_pos_start |-> Field(fields, 7),
     ref_pos_end |-> Field(fields, 8),
     ref_seq_len |-> Field(fields, 6),
     tp |-> None,
     de |-> None]

\* a tag scan that passes over a field without two colons instead of failing
ScanTag_skip(fields, k, rec) ==
    LET parts == Split(Field(fields, k), ":")
    IN  IF Len(parts) # 3 THEN [raised |-> FALSE, rec |-> rec]
        ELSE IF parts[1] = <<"t", "p">>
             THEN [raised |-> FALSE, rec |-> [rec EXCEPT !.tp = parts[3]]]
        ELSE IF parts[1] = <<"d", "e">>
             THEN [raised |-> FALSE, rec |-> [rec EXCEPT !.de = parts[3]]]
        ELSE [raised |-> FALSE, rec |-> rec]
\* lines 50-54: one iteration of the loop over fields[12:]; the unpacking
\* `tag, _, value = field.split(':')` raises ValueError unless there are
\* exactly three parts
ScanTag(fields, k, rec) ==
    LET parts == Split(Field(fields, k), ":")
    IN  IF Len(parts) # 3 THEN [raised |-> TRUE, rec |-> rec]
        ELSE IF parts[1] = <<"t", "p">>
             THEN [raised |-> FALSE, rec |-> [rec EXCEPT !.tp = parts[3]]]
        ELSE IF parts[1] = <<"d", "e">>
             THEN [raised |-> FALSE, rec |-> [rec EXCEPT !.de = parts[3]]]
        ELSE [raised |-> FALSE, rec |-> rec]

\* lines 49-54: the loop over fields[12:], stopped by the first ValueError
RECURSIVE ScanTags(_, _, _)
ScanTags(fields, k, rec) ==
    IF k >= Len(fields) THEN [raised |-> FALSE, rec |-> rec]
    ELSE LET step == ScanTag(fields, k, rec)
         IN  IF step.raised THEN step ELSE ScanTags(fields, k + 1, step.rec)

\* line 57: parsed_line['tp'] not in ['P', 'I'] or parsed_line['de'] is None
Rejected(rec) == rec.tp \notin {<<"P">>, <<"I">>} \/ rec.de = None

\* lines 18-60
parse_paf_line(text, min) ==
    LET fields == Split(Strip(text), TAB)
    IN  IF TooFewFields(fields) THEN ReturnNone
        ELSE LET n == ToInt(Field(fields, 9))
             IN  IF ~n.ok THEN Raise("ValueError")
                 ELSE IF BelowMinLength(n.val, min) THEN ReturnNone
                 ELSE LET scan == ScanTags(fields, 12, CoreFields(fields))
                      IN  IF scan.raised THEN Raise("ValueError")
                          ELSE IF Rejected(scan.rec) THEN ReturnNone
                          ELSE Return(scan.rec)

(***************************************************************************)
(* Inputs of the PAF parser: a line is written from its fields, joined by  *)
(* tabs and ended by a newline, as a file holds it.                        *)
(***************************************************************************)
MkLine(fields) == Join(fields, TAB) \o <<NL>>

\* the twelve mandatory fields; field 9 (matching bases) is chosen
Mandatory(f9) ==
    << <<"q", "1">>, <<"9", "0">>, <<"1">>, <<"8">>, <<"+">>, <<"c", "1">>,
       <<"7", "0">>, <<"2">>, <<"6">>, f9, <<"9", "9">>, <<"6", "0">> >>

\* a choice of field 9: its text and the number it writes
MatchChoices ==
    {[text |-> <<"4">>, val |-> 4], [text |-> <<"5">>, val |-> 5],
     [text |-> <<"9">>, val |-> 9], [text |-> <<"1", "0">>, val |-> 10]}

MinLengths == {5, 10}

\* a choice of optional field: its text, whether it is a tag:type:value
\* triple, and then its tag and value
TagChoices ==
    {[text |-> <<"t", "p", ":", "A", ":", "P">>, wf |-> TRUE, tag |-> "tp", value |-> <<"P">>],
     [text |-> <<"t", "p", ":", "A", ":", "I">>, wf |-> TRUE, tag |-> "tp", value |-> <<"I">>],
     [text |-> <<"t", "p", ":", "A", ":", "S">>, wf |-> TRUE, tag |-> "tp", value |-> <<"S">>],
     [text |-> <<"d", "e", ":", "f", ":", "0">>, wf |-> TRUE, tag |-> "de", value |-> <<"0">>],
     [text |-> <<"d", "e", ":", "f", ":", "1">>, wf |-> TRUE, tag |-> "de", value |-> <<"1">>],
     [text |-> <<"c", "m", ":", "i", ":", "5">>, wf |-> TRUE, tag |-> "cm", value |-> <<"5">>],
     [text |-> <<"d", "e", ":", "0">>, wf |-> FALSE, tag |-> "-", value |-> <<>>],
     [text |-> <<"d", "e", ":", "Z", ":", "a", ":", "b">>, wf |-> FALSE, tag |-> "-", value |-> <<>>],
     [text |-> <<>>, wf |-> FALSE, tag |-> "-", value |-> <<>>]}

BSeq(S, n) == UNION {[1..k -> S] : k \in 0..n}

\* what a line is written from: how many of the mandatory fields it has
\* (all twelve, or cut short), field 9, and the optional fields
PafInputs ==
    {[nfields |-> 12, match |-> m, tags |-> t] :
        m \in MatchChoices, t \in BSeq(TagChoices, MaxTags)}
    \cup {[nfields |-> n, match |-> m, tags |-> <<>>] :
            n \in {0, 1, 11}, m \in MatchChoices}

FieldsOf(in) ==
    SubSeq(Mandatory(in.match.text), 1, in.nfields)
        \o [i \in 1..Len(in.tags) |-> in.tags[i].text]

LineOf(in) == MkLine(FieldsOf(in))

(***************************************************************************)
(* One call of parse_paf_line.                                             *)
(***************************************************************************)
IdleRead ==
    /\ paf_file = <<>>
    /\ paf_pos = 0
    /\ alignments = <<>>
    /\ paf_pc = "idle"

IdlePaf ==
    /\ line = None
    /\ min_length = 0
    /\ paf_in = None
    /\ parsed_line = NotCalled

IdleMain ==
    /\ pc = "idle"
    /\ error = "-"
    /\ bed_file = <<>>
    /\ bed_pos = 0
    /\ bed_in = None
    /\ bed_parsed = NotCalled
    /\ regions = <<>>
    /\ alignment_files = <<>>
    /\ color_files = <<>>
    /\ source_index = 0
    /\ vertical_offset = 0
    /\ data = <<>>
    /\ color_lookup = <<>>
    /\ loop_pos = 0
    /\ patches = <<>>

IdleSortVars ==
    /\ sort_a = None
    /\ sort_b = None
    /\ sort_cmp = "-"
    /\ chrom_y_positions = <<>>
    /\ IdleMain

InitParsePaf ==
    /\ paf_in \in PafInputs
    /\ line = LineOf(paf_in)
    /\ min_length \in MinLengths
    /\ parsed_line = NotCalled
    /\ IdleRead
    /\ IdleSortVars

CallParsePafLine ==
    /\ paf_pc = "idle"
    /\ parsed_line.kind = "not called"
    /\ parsed_line' = parse_paf_line(line, min_length)
    /\ UNCHANGED <<line, min_length, paf_in>>
    /\ UNCHANGED <<vars_read, vars_other>>

NextParsePaf == CallParsePafLine

SpecParsePaf == InitParsePaf /\ [][NextParsePaf]_vars

(***************************************************************************)
(* read_paf: the loop over the lines of a file.                            *)
(***************************************************************************)
TagP == [text |-> <<"t", "p", ":", "A", ":", "P">>, wf |-> TRUE, tag |-> "tp", value |-> <<"P">>]
TagI == [text |-> <<"t", "p", ":", "A", ":", "I">>, wf |-> TRUE, tag |-> "tp", value |-> <<"I">>]
TagS == [text |-> <<"t", "p", ":", "A", ":", "S">>, wf |-> TRUE, tag |-> "tp", value |-> <<"S">>]
TagDe0 == [text |-> <<"d", "e", ":", "f", ":", "0">>, wf |-> TRUE, tag |-> "de", value |-> <<"0">>]
TagDe1 == [text |-> <<"d", "e", ":", "f", ":", "1">>, wf |-> TRUE, tag |-> "de", value |-> <<"1">>]
TagTwoParts == [text |-> <<"d", "e", ":", "0">>, wf |-> FALSE, tag |-> "-", value |-> <<>>]
TagFourParts == [text |-> <<"d", "e", ":", "Z", ":", "a", ":", "b">>, wf |-> FALSE, tag |-> "-", value |-> <<>>]
TagEmpty == [text |-> <<>>, wf |-> FALSE, tag |-> "-", value |-> <<>>]

Match4 == [text |-> <<"4">>, val |-> 4]
Match9 == [text |-> <<"9">>, val |-> 9]
Match10 == [text |-> <<"1", "0">>, val |-> 10]

\* the lines a file is made of
FileLines ==
    {[nfields |-> 12, match |-> Match10, tags |-> <<TagP, TagDe0>>],
     [nfields |-> 12, match |-> Match9, tags |-> <<TagS, TagI, TagDe1>>],
     [nfields |-> 11, match |-> Match10, tags |-> <<>>],
     [nfields |-> 0, match |-> Match10, tags |-> <<>>],
     [nfields |-> 12, match |-> Match10, tags |-> <<TagS, TagDe0>>],
     [nfields |-> 12, match |-> Match10, tags |-> <<TagP>>],
     [nfields |-> 12, match |-> Match10, tags |-> <<TagP, TagTwoParts, TagDe0>>],
     [nfields |-> 12, match |-> Match4, tags |-> <<TagTwoParts>>],
     [nfields |-> 12, match |-> Match10, tags |-> <<TagFourParts>>],
     [nfields |-> 12, match |-> Match10, tags |-> <<TagI, TagDe0, TagEmpty>>]}

InitReadPaf ==
    /\ paf_file \in BSeq(FileLines, MaxLines)
    /\ min_length \in MinLengths
    /\ paf_pos = 0
    /\ alignments = <<>>
    /\ paf_pc = "reading"
    /\ line = None
    /\ paf_in = None
    /\ parsed_line = NotCalled
    /\ IdleSortVars

\* a collection that puts each record in front of the earlier ones
Collect_front(list, r) ==
    IF r.kind = "record" THEN <<r.value>> \o list ELSE list
\* lines 79-80: `if parsed_line: alignments.append(parsed_line)`; None is
\* false and a dictionary with keys is true
Collect(list, r) ==
    IF r.kind = "record" THEN Append(list, r.value) ELSE list

\* lines 77-80: one iteration of `for line in f`; an exception raised by
\* parse_paf_line is not caught and ends read_paf
ReadPafLine ==
    /\ paf_pc = "reading"
    /\ paf_pos < Len(paf_file)
    /\ LET in == paf_file[paf_pos + 1]
           text == LineOf(in)
           r == parse_paf_line(text, min_length)
       IN  /\ paf_in' = in
           /\ line' = text
           /\ parsed_line' = r
           /\ paf_pos' = paf_pos + 1
           /\ IF r.kind = "raise"
              THEN paf_pc' = "raised" /\ UNCHANGED alignments
              ELSE paf_pc' = paf_pc /\ alignments' = Collect(alignments, r)
    /\ UNCHANGED <<paf_file, min_length>>
    /\ UNCHANGED vars_other

\* line 81: the file is exhausted, `return alignments`
ReturnAlignments ==
    /\ paf_pc = "reading"
    /\ paf_pos = Len(paf_file)
    /\ paf_pc' = "returned"
    /\ UNCHANGED <<paf_file, paf_pos, alignments>>
    /\ UNCHANGED <<vars_paf, vars_other>>

NextReadPaf == ReadPafLine \/ ReturnAlignments

SpecReadPaf == InitReadPaf /\ [][NextReadPaf]_vars

(***************************************************************************)
(* What the claims say of the PAF parser, stated on what a line was        *)
(* written from.                                                           *)
(***************************************************************************)
HasTag(tags, t) == \E i \in 1..Len(tags) : tags[i].tag = t

LastTag(tags, t) ==
    LET i == CHOOSE i \in 1..Len(tags) :
                 tags[i].tag = t /\ \A j \in (i + 1)..Len(tags) : tags[j].tag # t
    IN  tags[i].value

AllWellFormed(tags) == \A i \in 1..Len(tags) : tags[i].wf

\* the optional fields left once strip() has removed the line's end: the
\* tags up to the last one with any text
Kept(tags) ==
    LET keep == {i \in 1..Len(tags) : tags[i].text # <<>>}
    IN  SubSeq(tags, 1, IF keep = {} THEN 0
                        ELSE CHOOSE i \in keep : \A j \in keep : j <= i)

\* the three conditions of the filter
PassesFilter(in, min) ==
    /\ in.nfields >= 12
    /\ in.match.val >= min
    /\ HasTag(Kept(in.tags), "tp")
    /\ LastTag(Kept(in.tags), "tp") \in {<<"P">>, <<"I">>}
    /\ HasTag(Kept(in.tags), "de")

ExpectedRecord(in) ==
    LET f == Mandatory(in.match.text)
    IN  [query_name |-> f[1], query_start |-> f[3], query_end |-> f[4],
         target_name |-> f[6], ref_seq_len |-> f[7], ref_pos_start |-> f[8],
         ref_pos_end |-> f[9],
         tp |-> LastTag(Kept(in.tags), "tp"),
         de |-> LastTag(Kept(in.tags), "de")]

\* C1: a line of at least 12 fields whose optional fields are all
\* tag:type:value triples gives a record exactly when field 9 is at least
\* min_length, the last tp is P or I and a de tag is present, and None
\* otherwise; a line of fewer than 12 fields gives None; the record carries
\* fields 0, 2, 3, 5, 6, 7, 8 of the line and the last tp and de values.
C1_ParsePafLine ==
    parsed_line.kind # "not called" =>
        /\ paf_in.nfields < 12 => parsed_line.kind = "None"
        /\ (paf_in.nfields >= 12 /\ AllWellFormed(paf_in.tags)) =>
              IF PassesFilter(paf_in, min_length)
              THEN /\ parsed_line.kind = "record"
                   /\ parsed_line.value = ExpectedRecord(paf_in)
              ELSE parsed_line.kind = "None"

\* a record returned for a line whose first tp tag is S and whose last is not
C1_Witness ==
    /\ parsed_line.kind = "record"
    /\ AllWellFormed(paf_in.tags)
    /\ Len(paf_in.tags) = 3
    /\ paf_in.tags[1].value = <<"S">>
    /\ paf_in.match.val = min_length

RECURSIVE ExpectedAlignments(_, _)
ExpectedAlignments(file, min) ==
    IF file = <<>> THEN <<>>
    ELSE LET rest == ExpectedAlignments(SubSeq(file, 1, Len(file) - 1), min)
             last == file[Len(file)]
         IN  IF PassesFilter(last, min)
             THEN Append(rest, ExpectedRecord(last))
             ELSE rest

\* the line just read fails at least one of the three conditions
JustFailedFilter ==
    /\ paf_pos > 0
    /\ paf_pc # "returned"
    /\ ~PassesFilter(paf_in, min_length)

\* the line just read has an optional field without exactly two colons
HasMalformedTag(in) == in.nfields >= 12 /\ ~AllWellFormed(in.tags)

\* the line is one that parse_paf_line gives up on before it reads any
\* optional field
StopsBeforeTags(in, min) == in.nfields < 12 \/ in.match.val < min

\* C2, as claimed: every line that fails a filter condition gives None
\* without aborting the read, and the list returned is the records of the
\* passing lines in file order.
C2_Original ==
    /\ JustFailedFilter => (parsed_line.kind = "None" /\ paf_pc = "reading")
    /\ paf_pc = "returned" =>
          alignments = ExpectedAlignments(paf_file, min_length)

\* C2, amended: a line that fails a filter condition gives None without
\* aborting the read provided it stops at the field count or the length
\* test, or all its optional fields are tag:type:value triples; the lines
\* after it are still read; and a read that no line aborts returns the
\* records of the passing lines in file order.
C2_ReadPaf ==
    /\ (/\ JustFailedFilter
        /\ StopsBeforeTags(paf_in, min_length) \/ AllWellFormed(paf_in.tags))
          => (parsed_line.kind = "None" /\ paf_pc = "reading")
    /\ paf_pc = "reading" =>
          alignments = ExpectedAlignments(SubSeq(paf_file, 1, paf_pos), min_length)
    /\ paf_pc = "returned" =>
          /\ paf_pos = Len(paf_file)
          /\ alignments = ExpectedAlignments(paf_file, min_length)

\* a file returned with two records, after a line that was filtered out
C2_Witness ==
    /\ paf_pc = "returned"
    /\ Len(alignments) = 2
    /\ alignments[1] # alignments[2]
    /\ ~PassesFilter(paf_file[1], min_length)

\* C3, as claimed: a line with an optional field without exactly two colons
\* ends in a failure that aborts read_paf.
C3_Original ==
    (paf_pos > 0 /\ paf_pc # "returned" /\ HasMalformedTag(paf_in))
        => (parsed_line.kind = "raise" /\ paf_pc = "raised")

\* C3, amended: a line of at least 12 fields whose field 9 is at least
\* min_length and which has, among the optional fields left after strip(),
\* one without exactly two colons ends in a failure that aborts read_paf on
\* that line: nothing is returned and no later line is read.  A line with
\* such a field that has fewer than 12 fields or is below min_length gives
\* None instead.
C3_MalformedTag ==
    (paf_pos > 0 /\ paf_pc # "returned") =>
        /\ (/\ ~StopsBeforeTags(paf_in, min_length)
            /\ ~AllWellFormed(Kept(paf_in.tags)))
              => /\ parsed_line.kind = "raise"
                 /\ paf_pc = "raised"
                 /\ ~ENABLED ReadPafLine
                 /\ ~ENABLED ReturnAlignments
        /\ (HasMalformedTag(paf_in) /\ StopsBeforeTags(paf_in, min_length))
              => parsed_line.kind = "None"

\* read_paf aborted on the second line, by a tag of four parts
C3_Witness ==
    /\ paf_pc = "raised"
    /\ paf_pos = 2
    /\ paf_in.tags = <<TagFourParts>>
    /\ Len(alignments) = 1

(***************************************************************************)
(* asm_plot.py: the natural sort key and the chromosome slots.             *)
(***************************************************************************)
\* lines 126-134, in the dictionary's insertion order
REFERENCE_CHROMOSOMES ==
    << [name |-> <<"c", "h", "r", "1">>, length |-> 248387328],
       [name |-> <<"c", "h", "r", "2">>, length |-> 242696752],
       [name |-> <<"c", "h", "r", "3">>, length |-> 201105948],
       [name |-> <<"c", "h", "r", "4">>, length |-> 193574945],
       [name |-> <<"c", "h", "r", "5">>, length |-> 182045439],
       [name |-> <<"c", "h", "r", "6">>, length |-> 172126628],
       [name |-> <<"c", "h", "r", "7">>, length |-> 160567428],
       [name |-> <<"c", "h", "r", "8">>, length |-> 146259331],
       [name |-> <<"c", "h", "r", "9">>, length |-> 150617247],
       [name |-> <<"c", "h", "r", "1", "0">>, length |-> 134758134],
       [name |-> <<"c", "h", "r", "1", "1">>, length |-> 135127769],
       [name |-> <<"c", "h", "r", "1", "2">>, length |-> 133324548],
       [name |-> <<"c", "h", "r", "1", "3">>, length |-> 113566686],
       [name |-> <<"c", "h", "r", "1", "4">>, length |-> 101161492],
       [name |-> <<"c", "h", "r", "1", "5">>, length |-> 99753195],
       [name |-> <<"c", "h", "r", "1", "6">>, length |-> 96330374],
       [name |-> <<"c", "h", "r", "1", "7">>, length |-> 84276897],
       [name |-> <<"c", "h", "r", "1", "8">>, length |-> 80542538],
       [name |-> <<"c", "h", "r", "1", "9">>, length |-> 61707364],
       [name |-> <<"c", "h", "r", "2", "0">>, length |-> 66210255],
       [name |-> <<"c", "h", "r", "2", "1">>, length |-> 45090682],
       [name |-> <<"c", "h", "r", "2", "2">>, length |-> 51324926],
       [name |-> <<"c", "h", "r", "X">>, length |-> 154259566],
       [name |-> <<"c", "h", "r", "Y">>, length |-> 62460029],
       [name |-> <<"c", "h", "r", "M">>, length |-> 16569] >>

CatalogNames == {REFERENCE_CHROMOSOMES[i].name : i \in 1..Len(REFERENCE_CHROMOSOMES)}

\* REFERENCE_CHROMOSOMES.keys()
Keys == [i \in 1..Len(REFERENCE_CHROMOSOMES) |-> REFERENCE_CHROMOSOMES[i].name]

\* REFERENCE_CHROMOSOMES[chrom]
ChromLength(chrom) ==
    LET i == CHOOSE i \in 1..Len(REFERENCE_CHROMOSOMES) :
                 REFERENCE_CHROMOSOMES[i].name = chrom
    IN  REFERENCE_CHROMOSOMES[i].length

\* str.lower(), one character
LowerChar(c) ==
    CASE c = "A" -> "a" [] c = "B" -> "b" [] c = "C" -> "c" [] c = "D" -> "d"
      [] c = "E" -> "e" [] c = "F" -> "f" [] c = "G" -> "g" [] c = "H" -> "h"
      [] c = "I" -> "i" [] c = "J" -> "j" [] c = "K" -> "k" [] c = "L" -> "l"
      [] c = "M" -> "m" [] c = "N" -> "n" [] c = "O" -> "o" [] c = "P" -> "p"
      [] c = "Q" -> "q" [] c = "R" -> "r" [] c = "S" -> "s" [] c = "T" -> "t"
      [] c = "U" -> "u" [] c = "V" -> "v" [] c = "W" -> "w" [] c = "X" -> "x"
      [] c = "Y" -> "y" [] c = "Z" -> "z"
      [] OTHER -> c

Lower(s) == [i \in 1..Len(s) |-> LowerChar(s[i])]

\* the length of the run of digits that starts at s[i]
RECURSIVE DigitRun(_, _)
DigitRun(s, i) ==
    IF i <= Len(s) /\ s[i] \in Digits THEN 1 + DigitRun(s, i + 1) ELSE 0

\* the first index at or after i where a digit stands, 0 when there is none
RECURSIVE FindDigit(_, _)
FindDigit(s, i) ==
    IF i > Len(s) THEN 0
    ELSE IF s[i] \in Digits THEN i
    ELSE FindDigit(s, i + 1)

\* re.split('([0-9]+)', s): the text between the runs of digits, with the
\* runs themselves (the pattern's group) kept in between
RECURSIVE ReSplitDigits(_)
ReSplitDigits(s) ==
    LET i == FindDigit(s, 1)
    IN  IF i = 0 THEN <<s>>
        ELSE LET n == DigitRun(s, i)
             IN  <<SubSeq(s, 1, i - 1), SubSeq(s, i, i + n - 1)>>
                     \o ReSplitDigits(SubSeq(s, i + n, Len(s)))

\* one element of the key: an int, or lowered text
IntElem(n) == [isint |-> TRUE, n |-> n, text |-> <<>>]
TextElem(t) == [isint |-> FALSE, n |-> 0, text |-> t]

\* a key that keeps digit runs as text, which orders chr10 before chr2
KeyElem_text(text) == TextElem(Lower(text))
\* line 26: int(text) if text.isdigit() else text.lower()
KeyElem(text) ==
    IF AllDigits(text) THEN IntElem(ToInt(text).val) ELSE TextElem(Lower(text))

\* lines 25-26
natural_sort_key(s) ==
    LET parts == ReSplitDigits(s)
    IN  [i \in 1..Len(parts) |-> KeyElem(parts[i])]

\* the code point order of the characters that occur in names
CharOrder ==
    <<"0", "1", "2", "3", "4", "5", "6", "7", "8", "9", "_",
      "a", "b", "c", "d", "e", "f", "g", "h", "i", "j", "k", "l", "m",
      "n", "o", "p", "q", "r", "s", "t", "u", "v", "w", "x", "y", "z">>

Ord(c) == CHOOSE i \in 1..Len(CharOrder) : CharOrder[i] = c

\* str < str: the first differing character decides, a proper prefix is less
RECURSIVE StrCmp(_, _)
StrCmp(s, t) ==
    IF s = <<>> /\ t = <<>> THEN "eq"
    ELSE IF s = <<>> THEN "lt"
    ELSE IF t = <<>> THEN "gt"
    ELSE IF Head(s) = Head(t) THEN StrCmp(Tail(s), Tail(t))
    ELSE IF Ord(Head(s)) < Ord(Head(t)) THEN "lt" ELSE "gt"

\* the comparison of two key elements: int with int, str with str; an int
\* against a str is never equal and `<` between them raises TypeError
ElemCmp(x, y) ==
    IF x.isint /\ y.isint
    THEN (IF x.n = y.n THEN "eq" ELSE IF x.n < y.n THEN "lt" ELSE "gt")
    ELSE IF ~x.isint /\ ~y.isint THEN StrCmp(x.text, y.text)
    ELSE "TypeError"

\* list < list: the first pair of unequal elements decides, a proper prefix
\* is less
RECURSIVE KeyCmp(_, _)
KeyCmp(k1, k2) ==
    IF k1 = <<>> /\ k2 = <<>> THEN "eq"
    ELSE IF k1 = <<>> THEN "lt"
    ELSE IF k2 = <<>> THEN "gt"
    ELSE LET c == ElemCmp(Head(k1), Head(k2))
         IN  IF c = "eq" THEN KeyCmp(Tail(k1), Tail(k2)) ELSE c

NaturalCmp(a, b) == KeyCmp(natural_sort_key(a), natural_sort_key(b))

\* sorted(..., reverse=True) as an insertion sort: descending, equal keys
\* kept in their original order; a TypeError of any comparison propagates
RECURSIVE InsertDesc(_, _)
InsertDesc(sorted, x) ==
    IF sorted = <<>> THEN <<x>>
    ELSE IF NaturalCmp(Head(sorted), x) = "lt"
         THEN <<x>> \o sorted
         ELSE <<Head(sorted)>> \o InsertDesc(Tail(sorted), x)

RECURSIVE SortedDesc(_)
SortedDesc(names) ==
    IF names = <<>> THEN <<>>
    ELSE InsertDesc(SortedDesc(SubSeq(names, 1, Len(names) - 1)),
                    names[Len(names)])

\* sorted() raises the TypeError of a comparison it makes; every pair of the
\* catalog is looked at
SortRaises ==
    \E i, j \in 1..Len(Keys) : NaturalCmp(Keys[i], Keys[j]) = "TypeError"

\* line 149
chroms == SortedDesc(Keys)

\* line 150: enumerate(chroms, start=1), kept as the dictionary's items in
\* insertion order
Enumerate(list) == [i \in 1..Len(list) |-> [chrom |-> list[i], y_pos |-> i]]

\* chrom_y_positions[chrom]
YPos(items, chrom) ==
    LET i == CHOOSE i \in 1..Len(items) : items[i].chrom = chrom
    IN  items[i].y_pos

(***************************************************************************)
(* asm_plot.py: the parsers of the tab-alignment file, the colour table    *)
(* and the BED file.                                                       *)
(***************************************************************************)
Returned(v) == [kind |-> "value", value |-> v, error |-> "-"]
Raised(exc) == [kind |-> "raise", value |-> <<>>, error |-> exc]
Absent == [kind |-> "None", value |-> <<>>, error |-> "-"]

\* lines 38-40; the tuple on the right of line 39 is evaluated left to right,
\* so the first missing field or non-integer text decides the exception
parse_tab_line(text) ==
    LET fields == Split(Strip(text), TAB)
    IN  IF Len(fields) <= 4 THEN Raised("IndexError")
        ELSE LET s == ToInt(Field(fields, 4))
             IN  IF ~s.ok THEN Raised("ValueError")
                 ELSE IF Len(fields) <= 5 THEN Raised("IndexError")
                 ELSE LET e == ToInt(Field(fields, 5))
                      IN  IF ~e.ok THEN Raised("ValueError")
                          ELSE Returned([chrom |-> Field(fields, 3),
                                         start |-> s.val,
                                         end |-> e.val,
                                         query |-> Field(fields, 0)])

\* lines 56 and 119: `line.strip() and not line.startswith('#')`
IsDataLine(text) == Strip(text) # <<>> /\ ~(text # <<>> /\ Head(text) = "#")

\* lines 55-58: the loop over the lines after the header
RECURSIVE ReadTabLines(_, _, _)
ReadTabLines(lines, k, acc) ==
    IF k > Len(lines) THEN Returned(acc)
    ELSE IF ~IsDataLine(lines[k]) THEN ReadTabLines(lines, k + 1, acc)
    ELSE LET r == parse_tab_line(lines[k])
         IN  IF r.kind = "raise" THEN r
             ELSE ReadTabLines(lines, k + 1, Append(acc, r.value))

\* lines 42-59; next(f) on a file without any line raises StopIteration
read_tab_file(lines) ==
    IF lines = <<>> THEN Raised("StopIteration")
    ELSE ReadTabLines(lines, 2, <<>>)

\* csv.reader(file, delimiter='\t') on one line: the line without its
\* terminator, split on tabs; an empty line is the empty row
CsvRow(text) ==
    LET body == IF text # <<>> /\ text[Len(text)] = NL
                THEN SubSeq(text, 1, Len(text) - 1) ELSE text
    IN  IF body = <<>> THEN <<>> ELSE Split(body, TAB)

\* line 74, the filter of the comprehension: len(rows) >= value_column
RowKept(rows, value_column) == Len(rows) >= value_column

\* line 74: the comprehension, row by row; rows[value_column] on a row that
\* is too short raises IndexError
RECURSIVE BuildDict(_, _, _, _, _)
BuildDict(lines, k, key_column, value_column, dict) ==
    IF k > Len(lines) THEN Returned(dict)
    ELSE LET rows == CsvRow(lines[k])
         IN  IF ~RowKept(rows, value_column)
             THEN BuildDict(lines, k + 1, key_column, value_column, dict)
             ELSE IF Len(rows) <= key_column \/ Len(rows) <= value_column
             THEN Raised("IndexError")
             ELSE BuildDict(lines, k + 1, key_column, value_column,
                            (Field(rows, key_column) :> Field(rows, value_column)) @@ dict)

\* lines 61-75, with the default key_column=0, value_column=1
read_tsv_to_dict(lines) == BuildDict(lines, 1, 0, 1, <<>>)

\* a named colour and an RGB triple; a channel int(c) / 255.0 is kept as the
\* fraction num / den
Named(name) == [kind |-> "name", name |-> name, rgb |-> <<>>]
Rgb(triple) == [kind |-> "rgb", name |-> <<>>, rgb |-> triple]
Grey == Named(<<"g", "r", "e", "y">>)
Black == Named(<<"b", "l", "a", "c", "k">>)

\* line 94: re.split('_|\(', name)[0], the text before the first _ or (
RECURSIVE TypeOf(_)
TypeOf(name) ==
    IF name = <<>> \/ Head(name) \in {"_", "("} THEN <<>>
    ELSE <<Head(name)>> \o TypeOf(Tail(name))

\* the size test with <= in place of <: a region of exactly 100000 bp would
\* be dropped
TooSmall_le(size) == size <= 100000
\* line 91
TooSmall(size) == size < 100000

\* line 97: tuple(int(c) / 255.0 for c in color_values)
Normalize(color_values) ==
    LET ints == [i \in 1..Len(color_values) |-> ToInt(color_values[i])]
    IN  IF \E i \in 1..Len(ints) : ~ints[i].ok THEN Raised("ValueError")
        ELSE Returned(Rgb([i \in 1..Len(ints) |-> [num |-> ints[i].val, den |-> 255]]))

\* lines 77-101
parse_bed_line(text) ==
    LET fields == Split(Strip(text), TAB)
    IN  IF Len(fields) <= 1 THEN Raised("IndexError")
        ELSE LET s == ToInt(Field(fields, 1))
        IN  IF ~s.ok THEN Raised("ValueError")
        ELSE IF Len(fields) <= 2 THEN Raised("IndexError")
        ELSE LET e == ToInt(Field(fields, 2))
        IN  IF ~e.ok THEN Raised("ValueError")
        ELSE IF Len(fields) <= 3 THEN Raised("IndexError")
        ELSE IF TooSmall(e.val - s.val) THEN Absent
        ELSE IF Len(fields) <= 8 THEN Raised("IndexError")
        ELSE LET color_values == Split(Field(fields, 8), ",")
                 color == IF Len(color_values) = 3
                          THEN Normalize(color_values)
                          ELSE Returned(Grey)
        IN  IF color.kind = "raise" THEN color
            ELSE Returned([chrom |-> Field(fields, 0),
                           start |-> s.val,
                           end |-> e.val,
                           type |-> TypeOf(Field(fields, 3)),
                           color |-> color.value])

(***************************************************************************)
(* The files given to asm_plot.py.  A file is a sequence of lines; what a  *)
(* line is written from is kept beside its text.                           *)
(***************************************************************************)
Chr1 == <<"c", "h", "r", "1">>
Chr2 == <<"c", "h", "r", "2">>
UpperChr1 == <<"C", "h", "r", "1">>
Q1 == <<"q", "1">>
Q2 == <<"q", "2">>
Q3 == <<"q", "3">>
Red == <<"r", "e", "d">>
Blue == <<"b", "l", "u", "e">>

\* a number as its decimal text and its value
N0 == [text |-> <<"0">>, val |-> 0]
N1 == [text |-> <<"1">>, val |-> 1]
N5 == [text |-> <<"5">>, val |-> 5]
N1000 == [text |-> <<"1", "0", "0", "0">>, val |-> 1000]
N2000 == [text |-> <<"2", "0", "0", "0">>, val |-> 2000]
N100000 == [text |-> <<"1", "0", "0", "0", "0", "0">>, val |-> 100000]
N200000 == [text |-> <<"2", "0", "0", "0", "0", "0">>, val |-> 200000]
N255 == [text |-> <<"2", "5", "5">>, val |-> 255]
N300 == [text |-> <<"3", "0", "0">>, val |-> 300]

\* a BED line: chrom, start, end, name, and the channels of field 8
BedLine(chrom, start, end, name, channels) ==
    [skip |-> FALSE, chrom |-> chrom, start |-> start.val, end |-> end.val,
     channels |-> [i \in 1..Len(channels) |-> channels[i].val],
     text |-> MkLine(<<chrom, start.text, end.text, name, <<"0">>, <<".">>,
                       start.text, end.text,
                       Join([i \in 1..Len(channels) |-> channels[i].text], ",")>>)]

\* a blank line or a comment
BedSkip(text) ==
    [skip |-> TRUE, chrom |-> <<>>, start |-> 0, end |-> 0, channels |-> <<>>,
     text |-> text]

BedLines ==
    {BedLine(Chr1, N0, N100000, <<"c", "t", "_", "1">>, <<N255, N0, N0>>),
     BedLine(Chr1, N1, N100000, <<"c", "t", "_", "2">>, <<N255, N0, N0>>),
     BedLine(UpperChr1, N0, N200000, <<"h", "s", "(", "a">>, <<N0, N0>>),
     BedLine(Chr2, N5, N200000, <<"g", "a", "p">>, <<N300, N0, N255>>),
     BedSkip(<<"#", "x", NL>>),
     BedSkip(<<NL>>)}

BedHeader == <<"t", "r", "a", "c", "k", NL>>

\* a line of the tab-alignment file, as print_lines_to_file of parse_paf.py
\* writes it: query_name, query_start, query_end, target_name,
\* ref_pos_start, ref_pos_end, ref_seq_len, tp, de
TabLine(query, chrom, start, end) ==
    [skip |-> FALSE, query |-> query, chrom |-> chrom,
     start |-> start.val, end |-> end.val,
     text |-> MkLine(<<query, <<"1">>, <<"8">>, chrom, start.text, end.text,
                       <<"7", "0">>, <<"P">>, <<"0">>>>)]

TabSkip(text) ==
    [skip |-> TRUE, query |-> <<>>, chrom |-> <<>>, start |-> 0, end |-> 0,
     text |-> text]

TabHeader == TabSkip(<<"q", "u", "e", "r", "y", "_", "n", "a", "m", "e", NL>>)

A1 == TabLine(Q1, Chr1, N1000, N2000)
A2 == TabLine(Q2, UpperChr1, N5, N1000)
A3 == TabLine(Q3, Chr2, N2000, N1000)

\* the tab-alignment files, by path
TabFiles ==
    [T0 |-> <<TabHeader>>,
     T1 |-> <<TabHeader, A1>>,
     T2 |-> <<TabHeader, TabSkip(<<"#", "x", NL>>), A2, TabSkip(<<NL>>), A1>>,
     T3 |-> <<TabHeader, A3, A1>>]

\* a row of the colour table: its columns
ColorRow(columns) == [columns |-> columns, text |-> MkLine(columns)]

\* the colour tables, by path
ColorFiles ==
    [K1 |-> <<ColorRow(<<Q1, Red>>), ColorRow(<<Q3, Blue>>)>>,
     K2 |-> <<ColorRow(<<Q1, Red>>), ColorRow(<<>>), ColorRow(<<Q1, Blue, Q2>>)>>,
     K3 |-> <<ColorRow(<<Q1, Red>>), ColorRow(<<Q3>>)>>]

Texts(file) == [k \in 1..Len(file) |-> file[k].text]

(***************************************************************************)
(* The natural order on the catalog: the keys of two names are compared,   *)
(* and the slots are assigned.                                             *)
(***************************************************************************)
InitSort ==
    /\ sort_a \in CatalogNames
    /\ sort_b \in CatalogNames
    /\ sort_cmp = "-"
    /\ chrom_y_positions = <<>>
    /\ IdlePaf
    /\ IdleRead
    /\ IdleMain

\* natural_sort_key(a) < natural_sort_key(b), as sorted() evaluates it
CompareKeys ==
    /\ sort_a # None
    /\ sort_cmp = "-"
    /\ sort_cmp' = NaturalCmp(sort_a, sort_b)
    /\ UNCHANGED <<sort_a, sort_b, chrom_y_positions>>
    /\ UNCHANGED <<vars_paf, vars_read, vars_main>>

\* lines 149-150
AssignSlots ==
    /\ sort_a # None
    /\ chrom_y_positions = <<>>
    /\ ~SortRaises
    /\ chrom_y_positions' = Enumerate(chroms)
    /\ UNCHANGED vars_sort
    /\ UNCHANGED <<vars_paf, vars_read, vars_main>>

NextSort == CompareKeys \/ AssignSlots

SpecSort == InitSort /\ [][NextSort]_vars

(***************************************************************************)
(* asm_plot.py, main: read_bed_file, then plot_data.  Lengths on the y     *)
(* axis are in hundredths: ref_height 0.10 is 10.                          *)
(***************************************************************************)
ref_height == 10
asm_height == 5
asm_spacing == 15

\* no --bed_file: args.bed_file is None and no line is there to read (a file
\* that is given has at least its header)
NoFile == <<>>

BedFiles == {<<BedSkip(BedHeader)>> \o body : body \in BSeq(BedLines, MaxBedLines)}

Rectangle(layer, x, y, width, height, color) ==
    [layer |-> layer, x |-> x, y |-> y, width |-> width, height |-> height,
     color |-> color]

InitMain ==
    /\ pc = "main"
    /\ error = "-"
    /\ bed_file \in BedFiles \cup {NoFile}
    /\ bed_pos = 0
    /\ bed_in = None
    /\ bed_parsed = NotCalled
    /\ regions = <<>>
    /\ alignment_files = <<>>
    /\ color_files = <<>>
    /\ source_index = 0
    /\ vertical_offset = 0
    /\ data = <<>>
    /\ color_lookup = <<>>
    /\ loop_pos = 0
    /\ patches = <<>>
    /\ chrom_y_positions = <<>>
    /\ sort_a = None /\ sort_b = None /\ sort_cmp = "-"
    /\ IdlePaf
    /\ IdleRead

UnchangedPlot ==
    UNCHANGED <<alignment_files, color_files, source_index, vertical_offset, data,
                color_lookup, patches, chrom_y_positions>>

UnchangedRest == UNCHANGED <<vars_paf, vars_read, vars_sort>>

\* line 209 with --bed_file given, and lines 116-117: the file is opened and
\* next(f) skips its header
OpenBedFile ==
    /\ pc = "main"
    /\ bed_file # NoFile
    /\ pc' = "read_bed"
    /\ bed_pos' = 1
    /\ UNCHANGED <<error, bed_file, bed_in, bed_parsed, regions, loop_pos>>
    /\ UnchangedPlot /\ UnchangedRest

\* line 209 without --bed_file: regions = []
NoBedFile ==
    /\ pc = "main"
    /\ bed_file = NoFile
    /\ pc' = "plot"
    /\ UNCHANGED <<error, bed_file, bed_pos, bed_in, bed_parsed, regions, loop_pos>>
    /\ UnchangedPlot /\ UnchangedRest

\* lines 121-122: `if parsed_line: regions.append(parsed_line)`
Keep(list, r) == IF r.kind = "value" THEN Append(list, r.value) ELSE list

\* lines 118-122: one iteration of `for line in f`
ReadBedLine ==
    /\ pc = "read_bed"
    /\ bed_pos < Len(bed_file)
    /\ LET in == bed_file[bed_pos + 1]
           r == IF IsDataLine(in.text) THEN parse_bed_line(in.text) ELSE NotCalled
       IN  /\ bed_in' = in
           /\ bed_parsed' = r
           /\ bed_pos' = bed_pos + 1
           /\ IF r.kind = "raise"
              THEN pc' = "raised" /\ error' = r.error /\ UNCHANGED regions
              ELSE /\ UNCHANGED <<pc, error>>
                   /\ regions' = IF r.kind = "not called" THEN regions
                                 ELSE Keep(regions, r)
    /\ UNCHANGED <<bed_file, loop_pos>>
    /\ UnchangedPlot /\ UnchangedRest

\* line 123: the file is exhausted and closed, `return regions`; the locals
\* of read_bed_file are gone
ReturnRegions ==
    /\ pc = "read_bed"
    /\ bed_pos = Len(bed_file)
    /\ pc' = "plot"
    /\ bed_file' = <<>>
    /\ bed_pos' = 0
    /\ bed_in' = None
    /\ bed_parsed' = NotCalled
    /\ UNCHANGED <<error, regions, loop_pos>>
    /\ UnchangedPlot /\ UnchangedRest

\* lines 146-150: the slots
PlotStart ==
    /\ pc = "plot"
    /\ IF SortRaises
       THEN pc' = "raised" /\ error' = "TypeError" /\ UNCHANGED <<chrom_y_positions, loop_pos>>
       ELSE /\ pc' = "references"
            /\ chrom_y_positions' = Enumerate(chroms)
            /\ loop_pos' = 1
            /\ UNCHANGED error
    /\ UNCHANGED <<bed_file, bed_pos, bed_in, bed_parsed, regions,
                   alignment_files, color_files, source_index, vertical_offset, data,
                   color_lookup, patches>>
    /\ UnchangedRest

\* line 156
ReferenceRectangle(item) ==
    Rectangle("reference", 0, item.y_pos * 100 - ref_height \div 2,
              ChromLength(item.chrom), ref_height, Black)

\* lines 153-156: one iteration over chrom_y_positions.items()
PlotReference ==
    /\ pc = "references"
    /\ loop_pos <= Len(chrom_y_positions)
    /\ LET item == chrom_y_positions[loop_pos]
       IN  patches' = IF item.chrom \in CatalogNames
                      THEN Append(patches, ReferenceRectangle(item))
                      ELSE patches
    /\ loop_pos' = loop_pos + 1
    /\ UNCHANGED <<pc, error, bed_file, bed_pos, bed_in, bed_parsed, regions,
                   alignment_files, color_files, source_index, vertical_offset, data,
                   color_lookup, chrom_y_positions>>
    /\ UnchangedRest

\* line 159: the loop over the regions begins
EndReferences ==
    /\ pc = "references"
    /\ loop_pos > Len(chrom_y_positions)
    /\ pc' = "regions"
    /\ loop_pos' = 1
    /\ UNCHANGED <<error, bed_file, bed_pos, bed_in, bed_parsed, regions>>
    /\ UnchangedPlot /\ UnchangedRest

\* lines 161-164
RegionRectangle(r, slots) ==
    Rectangle("region", r.start, YPos(slots, r.chrom) * 100 - ref_height \div 2,
              r.end - r.start, ref_height, r.color)

\* lines 159-165: one iteration of `for r in regions`
PlotRegion ==
    /\ pc = "regions"
    /\ loop_pos <= Len(regions)
    /\ LET r == regions[loop_pos]
       IN  patches' = IF r.chrom \in CatalogNames
                      THEN Append(patches, RegionRectangle(r, chrom_y_positions))
                      ELSE patches
    /\ loop_pos' = loop_pos + 1
    /\ UNCHANGED <<pc, error, bed_file, bed_pos, bed_in, bed_parsed, regions,
                   alignment_files, color_files, source_index, vertical_offset, data,
                   color_lookup, chrom_y_positions>>
    /\ UnchangedRest

\* line 168
EndRegions ==
    /\ pc = "regions"
    /\ loop_pos > Len(regions)
    /\ pc' = "sources"
    /\ vertical_offset' = asm_spacing
    /\ loop_pos' = 0
    /\ UNCHANGED <<error, bed_file, bed_pos, bed_in, bed_parsed, regions,
                   alignment_files, color_files, source_index, data, color_lookup,
                   patches, chrom_y_positions>>
    /\ UnchangedRest

\* lines 171-173: the next source; its two files are read whole.  The paths
\* are drawn here, when they are first used
OpenSource ==
    /\ pc = "sources"
    /\ source_index < MaxSources
    /\ \E t \in DOMAIN TabFiles, c \in DOMAIN ColorFiles :
          LET d == read_tab_file(Texts(TabFiles[t]))
              l == IF d.kind = "raise" THEN d
                   ELSE read_tsv_to_dict(Texts(ColorFiles[c]))
          IN  /\ alignment_files' = Append(alignment_files, t)
              /\ color_files' = Append(color_files, c)
              /\ IF l.kind = "raise"
                 THEN /\ pc' = "raised"
                      /\ error' = l.error
                      /\ UNCHANGED <<data, color_lookup, loop_pos>>
                 ELSE /\ pc' = "alignments"
                      /\ data' = d.value
                      /\ color_lookup' = l.value
                      /\ loop_pos' = 1
                      /\ UNCHANGED error
    /\ UNCHANGED <<bed_file, bed_pos, bed_in, bed_parsed, regions, source_index,
                   vertical_offset, patches, chrom_y_positions>>
    /\ UnchangedRest

\* lines 180-183
AlignmentRectangle(d, slots, offset, color_val) ==
    Rectangle("alignment", d.start, YPos(slots, d.chrom) * 100 + offset,
              d.end - d.start, asm_height, Named(color_val))

\* lines 175-184: one iteration of `for d in data`; color_lookup[query_name]
\* raises KeyError for a name that is no key
PlotAlignment ==
    /\ pc = "alignments"
    /\ loop_pos <= Len(data)
    /\ LET d == data[loop_pos]
       IN  IF d.chrom \notin CatalogNames
           THEN UNCHANGED <<pc, error, patches>>
           ELSE IF d.query \notin DOMAIN color_lookup
           THEN pc' = "raised" /\ error' = "KeyError" /\ UNCHANGED patches
           ELSE /\ patches' = Append(patches,
                                 AlignmentRectangle(d, chrom_y_positions,
                                     vertical_offset, color_lookup[d.query]))
                /\ UNCHANGED <<pc, error>>
    /\ loop_pos' = loop_pos + 1
    /\ UNCHANGED <<bed_file, bed_pos, bed_in, bed_parsed, regions,
                   alignment_files, color_files, source_index, vertical_offset, data,
                   color_lookup, chrom_y_positions>>
    /\ UnchangedRest

\* an offset that is not incremented: every source drawn at the same height
NextOffset_same(offset) == offset
\* line 187
NextOffset(offset) == offset + asm_spacing

\* line 187, and the next turn of the loop of line 171
EndSource ==
    /\ pc = "alignments"
    /\ loop_pos > Len(data)
    /\ vertical_offset' = NextOffset(vertical_offset)
    /\ source_index' = source_index + 1
    /\ pc' = "sources"
    /\ loop_pos' = 0
    /\ UNCHANGED <<error, bed_file, bed_pos, bed_in, bed_parsed, regions,
                   alignment_files, color_files, data, color_lookup, patches,
                   chrom_y_positions>>
    /\ UnchangedRest

\* lines 189-200: every source is done (--input_files takes at least one
\* path), the figure is saved
SavePlot ==
    /\ pc = "sources"
    /\ source_index >= 1
    /\ pc' = "saved"
    /\ UNCHANGED <<error, bed_file, bed_pos, bed_in, bed_parsed, regions, loop_pos>>
    /\ UnchangedPlot /\ UnchangedRest

NextMain ==
    \/ OpenBedFile \/ NoBedFile \/ ReadBedLine \/ ReturnRegions
    \/ PlotStart \/ PlotReference \/ EndReferences \/ PlotRegion \/ EndRegions
    \/ OpenSource \/ PlotAlignment \/ EndSource \/ SavePlot

SpecMain == InitMain /\ [][NextMain]_vars

\* the order the claim gives: chr1 < ... < chr22 < chrM < chrX < chrY
ClaimedOrder ==
    << <<"c", "h", "r", "1">>, <<"c", "h", "r", "2">>, <<"c", "h", "r", "3">>,
       <<"c", "h", "r", "4">>, <<"c", "h", "r", "5">>, <<"c", "h", "r", "6">>,
       <<"c", "h", "r", "7">>, <<"c", "h", "r", "8">>, <<"c", "h", "r", "9">>,
       <<"c", "h", "r", "1", "0">>, <<"c", "h", "r", "1", "1">>, <<"c", "h", "r", "1", "2">>,
       <<"c", "h", "r", "1", "3">>, <<"c", "h", "r", "1", "4">>, <<"c", "h", "r", "1", "5">>,
       <<"c", "h", "r", "1", "6">>, <<"c", "h", "r", "1", "7">>, <<"c", "h", "r", "1", "8">>,
       <<"c", "h", "r", "1", "9">>, <<"c", "h", "r", "2", "0">>, <<"c", "h", "r", "2", "1">>,
       <<"c", "h", "r", "2", "2">>, <<"c", "h", "r", "M">>, <<"c", "h", "r", "X">>,
       <<"c", "h", "r", "Y">> >>

Rank(name) == CHOOSE i \in 1..Len(ClaimedOrder) : ClaimedOrder[i] = name

\* C7: on the 25 catalog names the natural-order comparison never compares
\* a number with a string, is a strict total order, and orders the names
\* chr1 < chr2 < ... < chr22 < chrM < chrX < chrY; the slots are a bijection
\* from the catalog onto 1..25 in reverse natural order (chrY 1, chr1 25).
C7_NaturalOrder ==
    /\ sort_cmp # "-" =>
          /\ sort_cmp # "TypeError"
          /\ sort_cmp = "eq" <=> sort_a = sort_b
          /\ sort_cmp = "lt" <=> Rank(sort_a) < Rank(sort_b)
          /\ sort_cmp = "gt" <=> Rank(sort_a) > Rank(sort_b)
    /\ chrom_y_positions # <<>> =>
          /\ {chrom_y_positions[i].chrom : i \in 1..Len(chrom_y_positions)} = CatalogNames
          /\ {chrom_y_positions[i].y_pos : i \in 1..Len(chrom_y_positions)} = 1..25
          /\ Len(chrom_y_positions) = 25
          /\ \A c \in CatalogNames :
                YPos(chrom_y_positions, c) = 26 - Rank(c)

\* chr2 compared with chr10, and the slots assigned
C7_Witness ==
    /\ sort_a = <<"c", "h", "r", "2">>
    /\ sort_b = <<"c", "h", "r", "1", "0">>
    /\ sort_cmp = "lt"
    /\ chrom_y_positions # <<>>
    /\ YPos(chrom_y_positions, <<"c", "h", "r", "Y">>) = 1
    /\ YPos(chrom_y_positions, <<"c", "h", "r", "1">>) = 25

(***************************************************************************)
(* What the claims say of asm_plot.py, stated on what the files were       *)
(* written from.                                                           *)
(***************************************************************************)
\* the records a tab-alignment file holds: its lines after the header that
\* are neither blank nor comments
TabRecords(path) ==
    LET kept == SelectSeq(TabFiles[path], LAMBDA l : ~l.skip)
    IN  [n \in 1..Len(kept) |->
            [chrom |-> kept[n].chrom, start |-> kept[n].start,
             end |-> kept[n].end, query |-> kept[n].query]]

\* the colour lookup the claim describes: each key goes to the second column
\* of the last row that carries it among the rows of at least two columns
ClaimedLookup(path) ==
    LET rows == ColorFiles[path]
        full == {n \in 1..Len(rows) : Len(rows[n].columns) >= 2}
        last(key) == CHOOSE n \in full :
                        /\ rows[n].columns[1] = key
                        /\ \A m \in full : rows[m].columns[1] = key => m <= n
    IN  [key \in {rows[n].columns[1] : n \in full} |-> rows[last(key)].columns[2]]

Slot(chrom) == 26 - Rank(chrom)

InCatalog(rec) == rec.chrom \in CatalogNames

IsPrefix(s, t) == Len(s) <= Len(t) /\ s = SubSeq(t, 1, Len(s))

\* C4, as claimed: the mapping sends each key to the second column of the
\* last row carrying it among the rows of at least two columns, and a row
\* of zero or one column is skipped without a failure.
C4_Original ==
    /\ error # "IndexError"
    /\ pc = "alignments" =>
          color_lookup = ClaimedLookup(color_files[Len(color_files)])

\* some record read so far is placed (its chromosome is in the catalog) and
\* its query is no key of its own source's lookup
UnknownIdentifier ==
    \E n \in 1..Len(alignment_files) :
        LET recs == TabRecords(alignment_files[n])
        IN  \E m \in 1..Len(recs) :
                /\ InCatalog(recs[m])
                /\ recs[m].query \notin DOMAIN ClaimedLookup(color_files[n])

\* C5, as claimed: the run ends in the unknown-identifier error exactly when
\* some placed record's query is absent from its source's colour lookup;
\* after the failure nothing more is emitted and nothing is saved.
C5_Original ==
    /\ pc \in {"saved", "raised"} =>
          ((pc = "raised" /\ error = "KeyError") <=> UnknownIdentifier)
    /\ pc = "raised" => ~ENABLED NextMain

ExpectedReferences ==
    [n \in 1..25 |->
        LET c == CHOOSE c \in CatalogNames : Slot(c) = n
        IN  Rectangle("reference", 0, n * 100 - ref_height \div 2,
                      ChromLength(c), ref_height, Black)]

ExpectedRegions ==
    LET placed == SelectSeq(regions, InCatalog)
    IN  [n \in 1..Len(placed) |->
            Rectangle("region", placed[n].start,
                      Slot(placed[n].chrom) * 100 - ref_height \div 2,
                      placed[n].end - placed[n].start, ref_height,
                      placed[n].color)]

\* the rectangles of source n (the code's i + 1)
ExpectedSource(n) ==
    LET placed == SelectSeq(TabRecords(alignment_files[n]), InCatalog)
        lookup == ClaimedLookup(color_files[n])
    IN  [m \in 1..Len(placed) |->
            Rectangle("alignment", placed[m].start,
                      Slot(placed[m].chrom) * 100 + n * asm_spacing,
                      placed[m].end - placed[m].start, asm_height,
                      IF placed[m].query \in DOMAIN lookup
                      THEN Named(lookup[placed[m].query])
                      ELSE Named(None))]

RECURSIVE ExpectedSources(_)
ExpectedSources(n) ==
    IF n = 0 THEN <<>> ELSE ExpectedSources(n - 1) \o ExpectedSource(n)

ExpectedPatches ==
    ExpectedReferences \o ExpectedRegions \o ExpectedSources(Len(alignment_files))

\* C6: a run that ends with every placed record coloured has emitted, in
\* this order, one reference rectangle per catalog chromosome (x 0, width
\* the chromosome's length), one rectangle per region whose chromosome is in
\* the catalog in the regions' order, then for each source in the order
\* given one rectangle per record whose chromosome is in the catalog, in
\* file order, at x = start, width = end - start, y = slot + (i + 1) *
\* spacing, coloured from that source's lookup; and what has been emitted
\* at any moment is the beginning of that sequence.
C6_EmittedOrder ==
    /\ pc \in {"references", "regions", "sources", "alignments", "saved", "raised"}
          => IsPrefix(patches, ExpectedPatches)
    /\ pc = "saved" => patches = ExpectedPatches

\* two sources with the record q1 chr1 1000-2000: two rectangles with the
\* same x range, at spacing * 1 and spacing * 2 above the slot of chr1
C6_Witness ==
    /\ pc = "saved"
    /\ Len(alignment_files) = 2
    /\ Len(regions) = 2
    /\ Len(patches) = 28
    /\ patches[27].x = 1000 /\ patches[27].width = 1000
    /\ patches[28].x = 1000 /\ patches[28].width = 1000
    /\ patches[27].y = 2500 + asm_spacing
    /\ patches[28].y = 2500 + 2 * asm_spacing
    /\ patches[27].color # patches[28].color

\* the BED lines read so far that are neither blank nor comments
BedRead == SelectSeq(SubSeq(bed_file, 2, bed_pos), LAMBDA l : ~l.skip)

Coordinates(list) ==
    [n \in 1..Len(list) |->
        [chrom |-> list[n].chrom, start |-> list[n].start, end |-> list[n].end]]

\* C8: a BED line is rejected when end - start < 100000 and retained when
\* end - start >= 100000; so the regions read_bed_file returns are the lines
\* of at least 100000 bp, and every region rectangle is that wide.
C8_SizeFilter ==
    /\ (pc = "read_bed" /\ bed_pos > 1 /\ ~bed_in.skip) =>
          /\ bed_in.end - bed_in.start < 100000 <=> bed_parsed.kind = "None"
          /\ bed_in.end - bed_in.start >= 100000 <=> bed_parsed.kind = "value"
    /\ pc = "read_bed" =>
          Coordinates(regions) =
              Coordinates(SelectSeq(BedRead, LAMBDA l : l.end - l.start >= 100000))
    /\ \A n \in 1..Len(regions) : regions[n].end - regions[n].start >= 100000
    /\ \A n \in 1..Len(patches) :
          patches[n].layer = "region" => patches[n].width >= 100000

\* a line of exactly 100000 bp has been retained and the last line, of 99999
\* bp, has just been rejected
C8_Witness ==
    /\ pc = "read_bed"
    /\ bed_pos > 1
    /\ bed_pos = Len(bed_file)
    /\ ~bed_in.skip
    /\ bed_in.end - bed_in.start = 99999
    /\ bed_parsed.kind = "None"
    /\ Len(regions) = 1
    /\ regions[1].end - regions[1].start = 100000

InUnitInterval(channel) == 0 <= channel.num /\ channel.num <= channel.den

\* C9, as claimed: the colour of a retained BED line is the default colour
\* or a triple of channels in [0, 1]; it is the triple (c1/255, c2/255,
\* c3/255) exactly when field 8 has three components.
C9_Original ==
    /\ (pc = "read_bed" /\ bed_pos > 1 /\ bed_parsed.kind = "value") =>
          LET color == bed_parsed.value.color
          IN  /\ color.kind = "rgb" <=> Len(bed_in.channels) = 3
              /\ color.kind = "rgb" =>
                    \A j \in 1..3 : color.rgb[j] = [num |-> bed_in.channels[j], den |-> 255]
              /\ color.kind # "rgb" => color = Grey
    /\ \A n \in 1..Len(regions) :
          \/ regions[n].color = Grey
          \/ /\ regions[n].color.kind = "rgb"
             /\ \A j \in 1..3 : InUnitInterval(regions[n].color.rgb[j])

\* C10, as claimed: every record of the tab-alignment parser has start >= 0
\* and end > start, so every alignment rectangle has a width > 0.
C10_Original ==
    /\ \A n \in 1..Len(data) : data[n].start >= 0 /\ data[n].end > data[n].start
    /\ \A n \in 1..Len(patches) :
          patches[n].layer = "alignment" => patches[n].width > 0

=============================================================================
